---------------------------- MODULE Spec2Model ----------------------------
(***************************************************************************)
(* Model of the time-driven simulation core of IDvision:                   *)
(*   - Engine (animation scheduler + frame driver), src/unnamed/part_000   *)
(*   - Physics (rigid-body integrator), src/src/physics.ts                 *)
(*                                                                         *)
(* Numbers.  JavaScript numbers are modelled as exact rationals <<n, d>>   *)
(* in lowest terms with d > 0, extended with the three IEEE-754 specials   *)
(* that division by zero produces: <<1,0>> = +Infinity, <<-1,0>> =         *)
(* -Infinity and <<0,0>> = NaN.  Rounding and the sign of zero are not     *)
(* modelled.  Times are integers (milliseconds).                           *)
(***************************************************************************)
EXTENDS Integers, Sequences, FiniteSets, TLC

(***************************************************************************)
(* Bounds of the exploration.                                              *)
(***************************************************************************)
MaxClockSteps == 2      \* number of times the clock may advance
MaxAnims      == 2      \* number of animateObject calls that register a task
MaxFrames     == 2      \* number of requestAnimationFrame requests
MaxBodies     == 2      \* number of Physics.addObject calls
MaxUpdates    == 2      \* number of Physics.update calls
MaxForces     == 1      \* number of Physics.applyForce calls

\* milliseconds by which the clock may advance between two operations
ClockSteps == {500}
MaxClock == MaxClockSteps * 500

(***************************************************************************)
(* Extended rational arithmetic.                                           *)
(***************************************************************************)
Abs(i) == IF i < 0 THEN -i ELSE i

RECURSIVE Gcd(_, _)
Gcd(a, b) == IF b = 0 THEN a ELSE Gcd(b, a % b)

Sign(i) == IF i > 0 THEN 1 ELSE IF i < 0 THEN -1 ELSE 0

\* lowest terms; a zero denominator keeps only the sign of the numerator
Norm(n, d) ==
    IF d = 0 THEN <<Sign(n), 0>>
    ELSE LET g == Gcd(Abs(n), Abs(d))
             s == IF d < 0 THEN -1 ELSE 1
         IN  <<(s * n) \div g, (s * d) \div g>>

R(i)   == <<i, 1>>
NaN    == <<0, 0>>
PosInf == <<1, 0>>
NegInf == <<-1, 0>>

IsNaN(a)    == a = NaN
IsInf(a)    == a[2] = 0 /\ a[1] # 0
IsFinite(a) == a[2] # 0

Mul(a, b) == Norm(a[1] * b[1], a[2] * b[2])

Add(a, b) ==
    IF IsInf(a) /\ IsInf(b) THEN (IF a = b THEN a ELSE NaN)
    ELSE Norm(a[1] * b[2] + b[1] * a[2], a[2] * b[2])

Neg(a) == <<-a[1], a[2]>>

Sub(a, b) == Add(a, Neg(b))

\* JavaScript a / b
Div(a, b) ==
    IF IsNaN(a) \/ IsNaN(b) THEN NaN
    ELSE IF IsInf(b) THEN (IF IsInf(a) THEN NaN ELSE R(0))
    ELSE IF b[1] = 0 THEN Norm(a[1], 0)
    ELSE Mul(a, Norm(b[2], b[1]))

\* JavaScript a < b (false when either side is NaN)
Lt(a, b) ==
    IF IsNaN(a) \/ IsNaN(b) THEN FALSE
    ELSE IF IsInf(a) \/ IsInf(b)
         THEN a # b /\ (a = NegInf \/ b = PosInf)
         ELSE a[1] * b[2] < b[1] * a[2]

\* JavaScript a >= b (false when either side is NaN)
Ge(a, b) == ~IsNaN(a) /\ ~IsNaN(b) /\ ~Lt(a, b)

\* Math.min(a, b)
MathMin(a, b) ==
    IF IsNaN(a) \/ IsNaN(b) THEN NaN
    ELSE IF Lt(b, a) THEN b ELSE a

\* Math.pow(a, 3)
Cube(a) == Mul(a, Mul(a, a))

(***************************************************************************)
(* THREE.Vector3 operations used by the code.                              *)
(***************************************************************************)
Vec(x, y, z) == <<x, y, z>>
V3(i, j, k)  == <<R(i), R(j), R(k)>>
ZeroVec      == V3(0, 0, 0)

\* Vector3.lerp: this.x += (v.x - this.x) * alpha, for each component
Lerp(s, e, alpha) == [c \in 1..3 |-> Add(s[c], Mul(Sub(e[c], s[c]), alpha))]

\* Vector3.multiplyScalar
MultiplyScalar(v, k) == [c \in 1..3 |-> Mul(v[c], k)]

\* Vector3.add
VAdd(v, w) == [c \in 1..3 |-> Add(v[c], w[c])]

\* Vector3.addScaledVector: this += w * k
AddScaledVector(v, w, k) == [c \in 1..3 |-> Add(v[c], Mul(w[c], k))]

(***************************************************************************)
(* Inputs.                                                                 *)
(***************************************************************************)
\* the Object3D instances of the caller
Handles == {"cube", "ball"}

\* ids of the object registry; an id names the Object3D of the same name
Ids == {"cube"}

\* arguments of the Physics calls drawn by the exploration
BodyArgs ==
    {[mass |-> 1, velocity |-> <<R(0), R(0), R(0)>>],
     [mass |-> 2, velocity |-> <<R(1), R(0), R(0)>>],
     [mass |-> 0, velocity |-> <<R(0), R(0), R(0)>>]}
Gravities  == {<<R(0), R(-10), R(0)>>}
DeltaTimes == {1000}
Forces     == {<<R(0), R(10), R(0)>>}
Velocities == {<<R(0), R(3), R(0)>>}

\* vectors owned by the caller and passed by reference as endValue
EndRefs == {"v1", "v2"}

\* the (property, endValue) arguments drawn by the exploration (rotation
\* takes the same code path as the other two properties)
Targets ==
    {[property |-> "position", endValue |-> "v1"],
     [property |-> "scale",    endValue |-> "v2"]}

\* the values the caller sets its vectors to after passing them
Mutations == {<<R(0), R(0), R(7)>>}

Easings == {"default", "easeOutCubic", "easeInOutCubic"}

\* behaviours of a caller-supplied callback; "none" is an absent callback,
\* "animate" calls engine.animateObject for the task's target, "stop" calls
\* engine.stop(), "restartOnce" calls engine.stop() and engine.start() the
\* first time it runs and nothing afterwards
Callbacks == {"none", "noop", "throw", "animate", "stop", "restartOnce"}

\* AnimationConfig values drawn by the exploration
Configs ==
    {[duration |-> 1000, easing |-> "easeOutCubic",   onUpdate |-> "noop",  onComplete |-> "noop"],
     [duration |-> 500,  easing |-> "default",        onUpdate |-> "noop",  onComplete |-> "noop"],
     [duration |-> 500,  easing |-> "default",        onUpdate |-> "throw", onComplete |-> "none"],
     [duration |-> 500,  easing |-> "default",        onUpdate |-> "none",  onComplete |-> "throw"],
     [duration |-> 0,    easing |-> "default",        onUpdate |-> "noop",  onComplete |-> "noop"],
     [duration |-> -500, easing |-> "easeInOutCubic", onUpdate |-> "noop",  onComplete |-> "noop"]}

\* AnimationConfig values of positive duration whose callbacks return
PlainConfigs ==
    {c \in Configs : c.duration > 0 /\ c.onUpdate # "throw" /\ c.onComplete # "throw"}

\* the AnimationConfig that an "animate" callback passes to animateObject
SpawnConfig ==
    [duration |-> 500, easing |-> "default", onUpdate |-> "none", onComplete |-> "none"]

\* AnimationConfig values with callbacks that call back into the Engine
CallbackConfigs ==
    {[duration |-> 500,  easing |-> "default", onUpdate |-> "noop",        onComplete |-> "noop"],
     [duration |-> 1000, easing |-> "default", onUpdate |-> "none",        onComplete |-> "noop"],
     [duration |-> 500,  easing |-> "default", onUpdate |-> "animate",     onComplete |-> "none"],
     [duration |-> 500,  easing |-> "default", onUpdate |-> "none",        onComplete |-> "animate"],
     [duration |-> 500,  easing |-> "default", onUpdate |-> "stop",        onComplete |-> "none"],
     [duration |-> 500,  easing |-> "default", onUpdate |-> "restartOnce", onComplete |-> "noop"],
     [duration |-> 500,  easing |-> "default", onUpdate |-> "throw",       onComplete |-> "none"]}

\* the ids that tasks can get: animateObject calls, and the tasks that the
\* callbacks of those register in the passes
MaxTasks == MaxAnims * (MaxFrames + MaxAnims + 2)

\* animationFrameId = null; requestAnimationFrame returns ids from 1
NoFrame == 0

\* the object of a Physics call that takes none, and the untracked entry of
\* an object that removeObject has not been called on since it was added
NoObject   == "none"
NotRemoved == <<>>

\* the record kept of a Physics call
Call(op, object, vector) ==
    [op |-> op, object |-> object, vector |-> vector]

(***************************************************************************)
(* State.                                                                  *)
(***************************************************************************)
VARIABLES
    clock,             \* Date.now()
    transform,         \* Object3D -> property -> Vector3 value
    vectors,           \* caller-owned vectors: EndRefs -> Vector3 value
    objects,           \* Engine.objects: the set of registered ids
    animations,        \* Engine.animations
    isRunning,         \* Engine.isRunning
    animationFrameId,  \* Engine.animationFrameId
    lastFrameTime,     \* Engine.lastFrameTime
    pending,           \* requestAnimationFrame requests not yet run or cancelled
    nextFrameId,       \* the id the next requestAnimationFrame returns
    animCount,         \* number of tasks registered so far (gives task ids)
    gravity,           \* Physics.gravity
    bodies,            \* Physics.objects
    \* observations of the run, not read by the program
    passCount,         \* number of updateAnimations calls so far
    passNow,           \* the clock reading of the last updateAnimations call
    passLog,           \* the visits of the last updateAnimations call
    passThrew,         \* the last updateAnimations call ended by an exception
    passBefore,        \* Engine.animations when the last pass began
    passAfter,         \* Engine.animations when the last pass ended
    passRepeat,        \* the last pass began with the clock reading and the
                       \* task list that the pass before it ended with
    completeCalls,     \* task id -> number of onComplete invocations
    reported,          \* task id -> progress values passed to onUpdate
    atRegistration,    \* task id -> value of the property when animateObject ran
    endAtRegistration, \* task id -> value of the endValue vector when
                       \* animateObject ran
    fired,             \* ids of the tasks whose one-shot callback has run
    retired,           \* the removals from Engine.animations: the task's id,
                       \* its progress then, whether its onComplete (if any)
                       \* had been called, and the number of the pass
    rewritten,         \* ids of the tasks written after their removal
    frameLog,          \* the calls made by the last Engine.animate call
    bodyCount,         \* number of Physics.addObject calls so far
    updateCount,       \* number of Physics.update calls so far
    lastDeltaTime,     \* the deltaTime given to the last Physics.update call
    forceCount,        \* number of Physics.applyForce calls so far
    lastCall,          \* the last Physics call other than setGravity: its
                       \* name, its object, its vector argument
    untracked          \* object -> its position when Physics.removeObject was
                       \* last called on it, until it is added again

engineVars == <<transform, vectors, objects, animations, isRunning,
                animationFrameId, lastFrameTime, pending, nextFrameId,
                animCount>>
physicsVars == <<gravity, bodies>>
obsVars == <<passCount, passNow, passLog, passThrew, passBefore,
             passAfter, passRepeat, completeCalls, reported, atRegistration,
             endAtRegistration, frameLog,
             fired, retired, rewritten,
             bodyCount, updateCount, lastDeltaTime, forceCount, lastCall,
             untracked>>
vars == <<clock, engineVars, physicsVars, obsVars>>

(***************************************************************************)
(* Easing functions.                                                       *)
(***************************************************************************)
linearEasing(t) == t

easeInOutCubic(t) ==
    IF Lt(t, <<1, 2>>)
    THEN Mul(R(4), Cube(t))
    ELSE Sub(R(1), Div(Cube(Add(Mul(R(-2), t), R(2))), R(2)))

easeOutCubic(t) == Sub(R(1), Cube(Sub(R(1), t)))

\* animation.easing(progress); config.easing || this.linearEasing
Ease(name, t) ==
    CASE name = "easeOutCubic"   -> easeOutCubic(t)
      [] name = "easeInOutCubic" -> easeInOutCubic(t)
      [] OTHER                   -> linearEasing(t)

(***************************************************************************)
(* Engine, as operators on a record s of the Engine's fields, so that a    *)
(* callback that runs inside the animation pass can call back into the     *)
(* Engine.  Besides the fields, s carries the local array completed        *)
(* (completedAnimations) of the pass being run, the observations that the  *)
(* state keeps, and of the call being made: log (the visits), threw (an    *)
(* exception is propagating), calls (the calls made by Engine.animate) and *)
(* pass (its number).                                                      *)
(***************************************************************************)
\* Math.min(elapsed / animation.duration, 1)
Progress(a, now) == MathMin(Div(R(now - a.startTime), R(a.duration)), R(1))

\* CurrentValue interpolating from the target's current value
CurrentValueFromTarget(s, a, now) ==
    Lerp(s.transform[a.target][a.property], s.vectors[a.endValue],
         Ease(a.easing, Progress(a, now)))

\* CurrentValue interpolating by the linear progress
CurrentValueLinear(s, a, now) ==
    Lerp(a.startValue, s.vectors[a.endValue], Progress(a, now))

\* animation.startValue.clone().lerp(animation.endValue, easedProgress);
\* endValue is the caller's vector, read when the pass runs
CurrentValue(s, a, now) ==
    Lerp(a.startValue, s.vectors[a.endValue], Ease(a.easing, Progress(a, now)))

\* the ObjectAnimation that animateObject builds
NewAnimation(s, id, property, endValue, config, now) ==
    [id         |-> s.animCount + 1,
     target     |-> id,
     property   |-> property,
     startValue |-> s.transform[id][property],
     endValue   |-> endValue,
     duration   |-> config.duration,
     startTime  |-> now,
     easing     |-> config.easing,
     onUpdate   |-> config.onUpdate,
     onComplete |-> config.onComplete]

\* Engine.animateObject
AnimateObject(s, id, property, endValue, config, now) ==
    IF id \notin s.objects THEN s
    ELSE [s EXCEPT !.animations = Append(@, NewAnimation(s, id, property, endValue,
                                                         config, now)),
                   !.animCount = @ + 1,
                   !.atRegistration[s.animCount + 1] = s.transform[id][property],
                   !.endAtRegistration[s.animCount + 1] = s.vectors[endValue]]

\* Stop that leaves the requested frame in place
StopNoCancel(s) == [s EXCEPT !.isRunning = FALSE]

\* Engine.stop
Stop(s) ==
    [s EXCEPT !.isRunning = FALSE,
              !.pending = IF s.animationFrameId # NoFrame
                          THEN @ \ {s.animationFrameId} ELSE @,
              !.animationFrameId = NoFrame]

\* this.animationFrameId = requestAnimationFrame(this.animate), and the
\* call of updateAnimations that follows it
RequestFrame(s) ==
    [s EXCEPT !.animationFrameId = s.nextFrameId,
              !.pending = @ \cup {s.nextFrameId},
              !.nextFrameId = @ + 1,
              !.calls = @ \o <<"requestAnimationFrame", "updateAnimations">>]

\* this.camera.update(); this.renderer.render(...), not reached when the
\* pass threw
RenderFrame(s) ==
    IF s.threw THEN s
    ELSE [s EXCEPT !.calls = @ \o <<"camera.update", "renderer.render">>]

RECURSIVE updateAnimations(_, _)

\* Engine.animate
Animate(s, now) ==
    IF ~s.isRunning THEN s
    ELSE RenderFrame(updateAnimations(RequestFrame(s), now))

\* Start without the isRunning guard
StartUnguarded(s, now) ==
    Animate([s EXCEPT !.isRunning = TRUE, !.lastFrameTime = now], now)

\* Engine.start
Start(s, now) ==
    IF s.isRunning THEN s
    ELSE Animate([s EXCEPT !.isRunning = TRUE, !.lastFrameTime = now], now)

\* a caller-supplied callback of task a running inside the pass
RunCallback(s, a, kind, now) ==
    CASE kind = "throw"   -> [s EXCEPT !.threw = TRUE]
      [] kind = "animate" -> AnimateObject(s, a.target, a.property, a.endValue,
                                           SpawnConfig, now)
      [] kind = "stop"    -> Stop(s)
      [] kind = "restartOnce" ->
            IF a.id \in s.fired THEN s
            ELSE Start(Stop([s EXCEPT !.fired = @ \cup {a.id}]), now)
      [] OTHER -> s

\* animation.target[animation.property].copy(currentValue)
CopyValue(s, a, value) ==
    [s EXCEPT !.transform[a.target][a.property] = value,
              !.log = Append(@, [id |-> a.id, target |-> a.target,
                                 property |-> a.property, value |-> value]),
              !.rewritten = IF \E r \in s.retired : r.id = a.id
                            THEN @ \cup {a.id} ELSE @]

\* animation.onUpdate?.(progress)
CallOnUpdate(s, a, progress, now) ==
    IF a.onUpdate = "none" THEN s
    ELSE RunCallback([s EXCEPT !.reported[a.id] = Append(@, progress)],
                     a, a.onUpdate, now)

\* if (progress >= 1) { animation.onComplete?.(); ... }
CallOnComplete(s, a, progress, now) ==
    IF s.threw \/ ~Ge(progress, R(1)) \/ a.onComplete = "none" THEN s
    ELSE RunCallback([s EXCEPT !.completeCalls[a.id] = @ + 1],
                     a, a.onComplete, now)

\* if (progress >= 1) { ...; completedAnimations.push(index) }
PushCompleted(s, k, progress) ==
    IF s.threw \/ ~Ge(progress, R(1)) THEN s
    ELSE [s EXCEPT !.completed = Append(@, k)]

\* the body of the forEach callback for task a at index k
VisitTask(s, a, k, progress, value, now) ==
    PushCompleted(CallOnComplete(CallOnUpdate(CopyValue(s, a, value),
                                              a, progress, now),
                                 a, progress, now),
                  k, progress)

\* one call of the forEach callback on element k, up to the first exception;
\* forEach skips an index past the end of the array
VisitOne(s, k, now) ==
    IF k > Len(s.animations) THEN s
    ELSE VisitTask(s, s.animations[k], k, Progress(s.animations[k], now),
                   CurrentValue(s, s.animations[k], now), now)

\* this.animations.forEach(...) from index k; len is the length when the
\* forEach began; an exception ends the pass
RECURSIVE VisitFrom(_, _, _, _)
VisitFrom(s, k, len, now) ==
    IF k > len \/ s.threw THEN s
    ELSE VisitFrom(VisitOne(s, k, now), k + 1, len, now)

\* this.animations.splice(k, 1)
SpliceAt(s, k, now) ==
    IF k > Len(s.animations) THEN s
    ELSE [s EXCEPT !.animations = SubSeq(@, 1, k - 1) \o SubSeq(@, k + 1, Len(@)),
                   !.retired = @ \cup {[id       |-> s.animations[k].id,
                                        progress |-> Progress(s.animations[k], now),
                                        called   |-> \/ s.animations[k].onComplete = "none"
                                                     \/ s.completeCalls[s.animations[k].id] > 0,
                                        pass     |-> s.pass]}]

\* for (i = completed.length - 1; i >= 0; i--) animations.splice(completed[i], 1)
RECURSIVE Splice(_, _, _)
Splice(s, i, now) ==
    IF i = 0 THEN s
    ELSE Splice(SpliceAt(s, s.completed[i], now), i - 1, now)

\* the removal loop, not reached when an exception ended the pass
RemoveCompleted(s, now) ==
    IF s.threw THEN s ELSE Splice(s, Len(s.completed), now)

\* the return from updateAnimations to a caller whose own pass has the
\* local array outer
Return(s, outer) == [s EXCEPT !.completed = outer]

updateAnimations(s, now) ==
    Return(RemoveCompleted(VisitFrom([s EXCEPT !.completed = <<>>],
                                     1, Len(s.animations), now),
                           now),
           s.completed)

(***************************************************************************)
(* Initial state: a constructed Engine and a constructed Physics; the      *)
(* caller's objects have the default transform of an Object3D.             *)
(***************************************************************************)
DefaultTransform ==
    [p \in {"position", "rotation", "scale"} |->
        IF p = "scale" THEN V3(1, 1, 1) ELSE ZeroVec]

Init ==
    /\ clock = 0
    /\ transform = [h \in Handles |-> DefaultTransform]
    /\ vectors = [r \in EndRefs |-> IF r = "v1" THEN V3(10, 0, 0) ELSE V3(0, 4, 0)]
    /\ objects = {}
    /\ animations = <<>>
    /\ isRunning = FALSE
    /\ animationFrameId = NoFrame
    /\ lastFrameTime = 0
    /\ pending = {}
    /\ nextFrameId = 1
    /\ animCount = 0
    /\ gravity = Vec(R(0), <<-49, 5>>, R(0))
    /\ bodies = <<>>
    /\ passCount = 0
    /\ passNow = 0
    /\ passLog = <<>>
    /\ passThrew = FALSE
    /\ passBefore = <<>>
    /\ passAfter = <<>>
    /\ passRepeat = FALSE
    /\ completeCalls = [i \in 1..MaxTasks |-> 0]
    /\ reported = [i \in 1..MaxTasks |-> <<>>]
    /\ atRegistration = [i \in 1..MaxTasks |-> ZeroVec]
    /\ endAtRegistration = [i \in 1..MaxTasks |-> ZeroVec]
    /\ fired = {}
    /\ retired = {}
    /\ rewritten = {}
    /\ frameLog = <<>>
    /\ bodyCount = 0
    /\ updateCount = 0
    /\ lastDeltaTime = 0
    /\ forceCount = 0
    /\ lastCall = Call("constructor", NoObject, ZeroVec)
    /\ untracked = [h \in Handles |-> NotRemoved]

(***************************************************************************)
(* The clock.                                                              *)
(***************************************************************************)
AdvanceClock(d) ==
    /\ clock + d <= MaxClock
    /\ clock' = clock + d
    /\ UNCHANGED <<engineVars, physicsVars, obsVars>>

(***************************************************************************)
(* Engine: the operations as actions.                                      *)
(***************************************************************************)
passObs == <<passCount, passNow, passLog, passThrew, passBefore, passAfter,
             passRepeat, completeCalls, reported, frameLog, fired, retired,
             rewritten>>
physObs == <<bodyCount, updateCount, lastDeltaTime, forceCount, lastCall,
            untracked>>

\* the Engine's fields and observations in the current state, at the
\* beginning of a call
EngineState ==
    [animations |-> animations, transform |-> transform, vectors |-> vectors,
     objects |-> objects, isRunning |-> isRunning,
     animationFrameId |-> animationFrameId, lastFrameTime |-> lastFrameTime,
     pending |-> pending, nextFrameId |-> nextFrameId, animCount |-> animCount,
     completeCalls |-> completeCalls, reported |-> reported,
     atRegistration |-> atRegistration,
     endAtRegistration |-> endAtRegistration, fired |-> fired, retired |-> retired,
     rewritten |-> rewritten, completed |-> <<>>, log |-> <<>>,
     threw |-> FALSE, calls |-> <<>>, pass |-> passCount + 1]

\* the state after a call that ended with the record r
Commit(r) ==
    /\ animations' = r.animations
    /\ transform' = r.transform
    /\ isRunning' = r.isRunning
    /\ animationFrameId' = r.animationFrameId
    /\ lastFrameTime' = r.lastFrameTime
    /\ pending' = r.pending
    /\ nextFrameId' = r.nextFrameId
    /\ animCount' = r.animCount
    /\ completeCalls' = r.completeCalls
    /\ reported' = r.reported
    /\ atRegistration' = r.atRegistration
    /\ endAtRegistration' = r.endAtRegistration
    /\ fired' = r.fired
    /\ retired' = r.retired
    /\ rewritten' = r.rewritten

\* the observations of the animation pass of a call that ended with r
ObservePass(r) ==
    IF r.calls = <<>>
    THEN UNCHANGED <<passCount, passNow, passLog, passThrew, passBefore,
                     passAfter, passRepeat>>
    ELSE /\ passCount' = passCount + 1
         /\ passNow' = clock
         /\ passLog' = r.log
         /\ passThrew' = r.threw
         /\ passBefore' = animations
         /\ passAfter' = r.animations
         /\ passRepeat' = (passCount > 0 /\ clock = passNow /\ animations = passAfter)

addObject(id) ==
    /\ objects' = objects \cup {id}
    /\ UNCHANGED <<clock, transform, vectors, animations, isRunning,
                   animationFrameId, lastFrameTime, pending, nextFrameId,
                   animCount, physicsVars, passObs, atRegistration,
                   endAtRegistration, physObs>>

animateObject(id, property, endValue, config) ==
    /\ animCount < MaxAnims
    /\ \E r \in {AnimateObject(EngineState, id, property, endValue, config, clock)} :
          Commit(r)
    /\ UNCHANGED <<clock, vectors, objects, physicsVars, passCount, passNow,
                   passLog, passThrew, passBefore, passAfter, passRepeat,
                   frameLog, physObs>>

start ==
    /\ \E r \in {Start(EngineState, clock)} :
          /\ r.nextFrameId <= MaxFrames + 1
          /\ Commit(r)
          /\ ObservePass(r)
          /\ frameLog' = IF isRunning THEN frameLog ELSE r.calls
    /\ UNCHANGED <<clock, vectors, objects, physicsVars, physObs>>

\* stop that leaves the requested frame in place
stopNoCancel ==
    /\ isRunning' = FALSE
    /\ UNCHANGED <<clock, transform, vectors, objects, animations,
                   animationFrameId, pending, lastFrameTime, nextFrameId,
                   animCount, physicsVars, passObs, atRegistration,
                   endAtRegistration, physObs>>

stop ==
    /\ \E r \in {Stop(EngineState)} : Commit(r)
    /\ UNCHANGED <<clock, vectors, objects, physicsVars, passCount, passNow,
                   passLog, passThrew, passBefore, passAfter, passRepeat,
                   frameLog, physObs>>

\* the browser runs a requested frame callback: Engine.animate
tick(id) ==
    /\ id \in pending
    /\ \E r \in {Animate([EngineState EXCEPT !.pending = @ \ {id}], clock)} :
          /\ r.nextFrameId <= MaxFrames + 1
          /\ Commit(r)
          /\ ObservePass(r)
          /\ frameLog' = r.calls
    /\ UNCHANGED <<clock, vectors, objects, physicsVars, physObs>>

\* the caller changes a vector it owns, e.g. v.set(0, 0, 7)
mutate(ref, value) ==
    /\ vectors[ref] # value
    /\ vectors' = [vectors EXCEPT ![ref] = value]
    /\ UNCHANGED <<clock, transform, objects, animations, isRunning,
                   animationFrameId, lastFrameTime, pending, nextFrameId,
                   animCount, physicsVars, passObs, atRegistration,
                   endAtRegistration, physObs>>

(***************************************************************************)
(* Physics.                                                                *)
(***************************************************************************)
engineObs == <<passObs, atRegistration, endAtRegistration>>

setGravity(g) ==
    /\ gravity' = g
    /\ UNCHANGED <<clock, engineVars, bodies, engineObs, physObs>>

\* Physics.addObject (named apart from Engine.addObject)
physicsAddObject(object, mass, velocity) ==
    /\ bodyCount < MaxBodies
    /\ bodies' = Append(bodies, [object |-> object, velocity |-> velocity, mass |-> mass])
    /\ bodyCount' = bodyCount + 1
    /\ lastCall' = Call("addObject", object, velocity)
    /\ untracked' = [untracked EXCEPT ![object] = NotRemoved]
    /\ UNCHANGED <<clock, engineVars, gravity, engineObs, updateCount,
                   lastDeltaTime, forceCount>>

\* filter that drops the first matching entry only
RECURSIVE WithoutFirst(_, _)
WithoutFirst(list, object) ==
    IF list = <<>> THEN <<>>
    ELSE IF Head(list).object = object THEN Tail(list)
    ELSE <<Head(list)>> \o WithoutFirst(Tail(list), object)

\* this.objects.filter((obj) => obj.object !== object)
RECURSIVE Without(_, _)
Without(list, object) ==
    IF list = <<>> THEN <<>>
    ELSE IF Head(list).object = object THEN Without(Tail(list), object)
    ELSE <<Head(list)>> \o Without(Tail(list), object)

\* Physics.removeObject
physicsRemoveObject(object) ==
    /\ bodies' = Without(bodies, object)
    /\ lastCall' = Call("removeObject", object, ZeroVec)
    /\ untracked' = [untracked EXCEPT ![object] = transform[object]["position"]]
    /\ UNCHANGED <<clock, engineVars, gravity, engineObs, bodyCount, updateCount,
                   lastDeltaTime, forceCount>>

\* StepBody with the position moved by the velocity of before the step
StepBodyOldVelocity(s, k, dt) ==
    LET b            == s.bodies[k]
        acceleration == MultiplyScalar(s.gravity, Div(R(1), R(b.mass)))
        velocity     == VAdd(b.velocity, MultiplyScalar(acceleration, dt))
    IN  [s EXCEPT !.bodies[k].velocity = velocity,
                  !.transform[b.object]["position"] =
                      AddScaledVector(@, b.velocity, dt)]

\* the forEach callback of Physics.update on element k
StepBody(s, k, dt) ==
    LET b            == s.bodies[k]
        acceleration == MultiplyScalar(s.gravity, Div(R(1), R(b.mass)))
        velocity     == VAdd(b.velocity, MultiplyScalar(acceleration, dt))
    IN  [s EXCEPT !.bodies[k].velocity = velocity,
                  !.transform[b.object]["position"] =
                      AddScaledVector(@, velocity, dt)]

RECURSIVE StepFrom(_, _, _)
StepFrom(s, k, dt) ==
    IF k > Len(s.bodies) THEN s
    ELSE StepFrom(StepBody(s, k, dt), k + 1, dt)

\* Physics.update
update(deltaTime) ==
    /\ updateCount < MaxUpdates
    /\ LET dt == Div(R(deltaTime), R(1000))
           s  == StepFrom([bodies |-> bodies, transform |-> transform,
                           gravity |-> gravity], 1, dt)
       IN  /\ bodies' = s.bodies
           /\ transform' = s.transform
    /\ updateCount' = updateCount + 1
    /\ lastDeltaTime' = deltaTime
    /\ lastCall' = Call("update", NoObject, ZeroVec)
    /\ UNCHANGED <<clock, vectors, objects, animations, isRunning,
                   animationFrameId, lastFrameTime, pending, nextFrameId,
                   animCount, gravity, engineObs, bodyCount, forceCount,
                   untracked>>

\* this.objects.find((obj) => obj.object === object): the index of the first
\* entry of the object, 0 when there is none
Find(list, object) ==
    IF \E k \in 1..Len(list) : list[k].object = object
    THEN CHOOSE k \in 1..Len(list) :
            /\ list[k].object = object
            /\ \A j \in 1..(k - 1) : list[j].object # object
    ELSE 0

\* the force added to the velocity as it is
ForceAccelerationUnscaled(force, mass) == force

\* force.clone().multiplyScalar(1 / physicsObject.mass)
ForceAcceleration(force, mass) == MultiplyScalar(force, Div(R(1), R(mass)))

\* the velocity that applyForce leaves in the entry b
Accelerated(b, force) == VAdd(b.velocity, ForceAcceleration(force, b.mass))

\* ApplyForce that acts on the first entry when the object has none
ApplyForceToFirst(list, object, force) ==
    IF list = <<>> THEN list
    ELSE IF Find(list, object) = 0
    THEN [list EXCEPT ![1].velocity = Accelerated(list[1], force)]
    ELSE [list EXCEPT ![Find(list, object)].velocity =
              Accelerated(list[Find(list, object)], force)]

\* the tracked collection after Physics.applyForce
ApplyForce(list, object, force) ==
    IF Find(list, object) = 0 THEN list
    ELSE [list EXCEPT ![Find(list, object)].velocity =
              Accelerated(list[Find(list, object)], force)]

\* the tracked collection after Physics.setVelocity
SetVelocity(list, object, velocity) ==
    IF Find(list, object) = 0 THEN list
    ELSE [list EXCEPT ![Find(list, object)].velocity = velocity]

\* Physics.applyForce
applyForce(object, force) ==
    /\ forceCount < MaxForces
    /\ bodies' = ApplyForce(bodies, object, force)
    /\ forceCount' = forceCount + 1
    /\ lastCall' = Call("applyForce", object, force)
    /\ UNCHANGED <<clock, engineVars, gravity, engineObs, bodyCount, updateCount,
                   lastDeltaTime, untracked>>

\* Physics.setVelocity
setVelocity(object, velocity) ==
    /\ bodies' = SetVelocity(bodies, object, velocity)
    /\ lastCall' = Call("setVelocity", object, velocity)
    /\ UNCHANGED <<clock, engineVars, gravity, engineObs, bodyCount, updateCount,
                   lastDeltaTime, forceCount, untracked>>

PhysicsNext ==
    \/ \E g \in Gravities : setGravity(g)
    \/ \E h \in Handles, b \in BodyArgs : physicsAddObject(h, b.mass, b.velocity)
    \/ \E h \in Handles : physicsRemoveObject(h)
    \/ \E d \in DeltaTimes : update(d)
    \/ \E h \in Handles, f \in Forces : applyForce(h, f)
    \/ \E h \in Handles, v \in Velocities : setVelocity(h, v)

PhysicsSpec == Init /\ [][PhysicsNext]_vars

Next ==
    \/ \E d \in ClockSteps : AdvanceClock(d)
    \/ \E id \in Ids : addObject(id)
    \/ \E id \in Ids, t \in Targets, c \in Configs :
          animateObject(id, t.property, t.endValue, c)
    \/ start
    \/ stop
    \/ \E id \in pending : tick(id)

Spec == Init /\ [][Next]_vars

\* the Engine with callbacks that call back into it
CallbackNext ==
    \/ \E d \in ClockSteps : AdvanceClock(d)
    \/ \E id \in Ids : addObject(id)
    \/ \E id \in Ids, c \in CallbackConfigs :
          animateObject(id, "position", "v1", c)
    \/ start
    \/ stop
    \/ \E id \in pending : tick(id)

CallbackSpec == Init /\ [][CallbackNext]_vars

\* the Engine with a caller that changes the vectors it passed as endValue
MutationNext ==
    \/ \E d \in ClockSteps : AdvanceClock(d)
    \/ \E id \in Ids : addObject(id)
    \/ \E id \in Ids, t \in Targets, c \in PlainConfigs :
          animateObject(id, t.property, t.endValue, c)
    \/ \E ref \in EndRefs, value \in Mutations : mutate(ref, value)
    \/ start
    \/ stop
    \/ \E id \in pending : tick(id)

MutationSpec == Init /\ [][MutationNext]_vars

\* the operations that name a target: the registry and animateObject of the
\* Engine, addObject, applyForce and setVelocity of Physics
TargetNext ==
    \/ \E id \in Ids : addObject(id)
    \/ \E id \in Handles, t \in Targets, c \in Configs :
          animateObject(id, t.property, t.endValue, c)
    \/ \E h \in Handles, b \in BodyArgs : physicsAddObject(h, b.mass, b.velocity)
    \/ \E h \in Handles, f \in Forces : applyForce(h, f)
    \/ \E h \in Handles, v \in Velocities : setVelocity(h, v)

TargetSpec == Init /\ [][TargetNext]_vars

(***************************************************************************)
(* Properties of Engine, checked under Spec.                               *)
(***************************************************************************)
TaskOf(list, id) == CHOOSE a \in {list[k] : k \in 1..Len(list)} : a.id = id

HasTask(list, id) == \E k \in 1..Len(list) : list[k].id = id

Last(seq) == seq[Len(seq)]

\* C1: a task with an onComplete callback has had it invoked exactly once as
\* soon as a pass ran with a clock reading >= startTime + duration, and not
\* at all before.
C1_OnCompleteOnce ==
    \A k \in 1..Len(passBefore) :
        LET a == passBefore[k]
        IN  a.onComplete # "none" =>
                completeCalls[a.id] =
                    IF passNow >= a.startTime + a.duration THEN 1 ELSE 0

\* C2: a pass visits every task of the list it began with, whatever a
\* callback throws, and leaves no task in the list that completed in it.
C2_PassIsolatesFaults ==
    /\ Len(passLog) = Len(passBefore)
    /\ \A k \in 1..Len(passAfter) : ~Ge(Progress(passAfter[k], passNow), R(1))

\* C3: no task with duration <= 0 is ever appended to the animations list.
C3_DurationPositive ==
    \A k \in 1..Len(animations) : animations[k].duration > 0

\* the calls of a frame that C5 orders
IsFrameStep(c) == c \in {"updateAnimations", "physics.update", "renderer.render"}

\* C5: a frame runs the animation pass, the physics step and the render call
\* in this order and then sets lastFrameTime to the frame's clock reading.
C5_FrameOrder ==
    (passCount > 0 /\ ~passThrew) =>
        /\ SelectSeq(frameLog, IsFrameStep) =
              <<"updateAnimations", "physics.update", "renderer.render">>
        /\ lastFrameTime = passNow

\* C6: while the engine is stopped no frame request is pending, and the
\* only step that runs an animation pass from a stopped engine is start().
C6_StoppedIsIdle ==
    /\ [](~isRunning => (pending = {} /\ animationFrameId = NoFrame))
    /\ [][(~isRunning /\ passCount' # passCount) =>
            (isRunning' /\ lastFrameTime' = clock)]_vars

\* C6 witness: the engine ran passes and was stopped.
C6_Witness == ~isRunning /\ passCount > 0 /\ nextFrameId > 1 /\ pending = {}

\* a pass that begins with the clock reading and the task list the pass
\* before it ended with
IsRepeatedPass ==
    /\ passCount > 0
    /\ passCount' = passCount + 1
    /\ clock = passNow
    /\ animations = passAfter

\* tasks of positive duration whose callbacks return normally
WellFormed(list) ==
    \A k \in 1..Len(list) :
        /\ list[k].duration > 0
        /\ list[k].onUpdate # "throw"
        /\ list[k].onComplete # "throw"

\* C7 as stated: the second of two passes with the same clock value leaves
\* every target property with the value it had after the first (stated for
\* tasks of positive duration whose callbacks return normally).
C7_RepeatedPassSameValues ==
    [][(IsRepeatedPass /\ WellFormed(passBefore)) => transform' = transform]_vars

\* the task that wrote target[property] last in the pass with the given log
LastWriter(log, h, p) ==
    LET W == {i \in 1..Len(log) : log[i].target = h /\ log[i].property = p}
    IN  IF W = {} THEN 0 ELSE log[CHOOSE i \in W : \A j \in W : j <= i].id

\* C7 amended: in the second of two passes with the same clock value every
\* task visited by both writes the value it wrote in the first; a target
\* property keeps its value unless the task that wrote it last in the first
\* pass was retired by that pass while another task on the same target and
\* property remains in the list.
C7_RepeatedPassSameWrites ==
    [][IsRepeatedPass =>
        /\ \A i \in 1..Len(passLog), j \in 1..Len(passLog') :
              passLog[i].id = passLog'[j].id => passLog[i].value = passLog'[j].value
        /\ \A h \in Handles, p \in DOMAIN DefaultTransform :
              LET w == LastWriter(passLog, h, p)
                  others == {k \in 1..Len(animations) :
                                animations[k].target = h /\ animations[k].property = p}
              IN  (HasTask(animations, w) \/ others = {}) =>
                      transform'[h][p] = transform[h][p]]_vars

\* C7 witness: a repeated pass over two tasks on the same target and property.
C7_Witness ==
    /\ passRepeat
    /\ Len(passLog) = 2
    /\ passLog[1].target = passLog[2].target
    /\ passLog[1].property = passLog[2].property
    /\ passLog[1].value # passLog[2].value

\* C8: the progress values passed to a task's onUpdate are within [0,1],
\* never decrease, and the last one of a retired task is 1.
C8_ProgressMonotone ==
    \A id \in 1..MaxAnims :
        LET r == reported[id]
        IN  /\ \A i \in 1..Len(r) : Ge(r[i], R(0)) /\ Ge(R(1), r[i])
            /\ \A i \in 1..(Len(r) - 1) : Ge(r[i + 1], r[i])
            /\ (id <= animCount /\ ~HasTask(animations, id) /\ r # <<>>) =>
                  Last(r) = R(1)

\* C9: every visit of a pass writes startValue + (endValue - startValue) *
\* easing(progress) component-wise, with startValue the property's value when
\* animateObject was called and progress = min(elapsed / duration, 1);
\* onUpdate receives progress itself; the property holds the value of its last
\* writer; easeOutCubic gives 7/8 at progress 1/2, so (0,0,0) to (10,0,0)
\* over 1000 ms is at (8.75,0,0) after 500 ms.
C9_WrittenValue ==
    /\ \A i \in 1..Len(passLog) :
          LET v        == passLog[i]
              a        == TaskOf(passBefore, v.id)
              progress == MathMin(Div(R(passNow - a.startTime), R(a.duration)), R(1))
              eased    == Ease(a.easing, progress)
              from     == atRegistration[a.id]
              to       == vectors[a.endValue]
          IN  /\ v.value = [c \in 1..3 |->
                               Add(from[c], Mul(Sub(to[c], from[c]), eased))]
              /\ a.onUpdate # "none" => Last(reported[a.id]) = progress
              /\ LastWriter(passLog, v.target, v.property) = v.id =>
                    transform[v.target][v.property] = v.value
              /\ (/\ a.easing = "easeOutCubic" /\ progress = <<1, 2>>
                  /\ from = V3(0, 0, 0) /\ to = V3(10, 0, 0)) =>
                    v.value = <<<<35, 4>>, R(0), R(0)>>

\* C9 witness: the (0,0,0) to (10,0,0) easeOutCubic task visited at elapsed
\* 500 ms of 1000 ms.
C9_Witness ==
    \E i \in 1..Len(passLog) :
        LET a == TaskOf(passBefore, passLog[i].id)
        IN  /\ a.easing = "easeOutCubic"
            /\ a.duration = 1000
            /\ passNow - a.startTime = 500
            /\ atRegistration[a.id] = V3(0, 0, 0)
            /\ passLog[i].value = <<<<35, 4>>, R(0), R(0)>>
            /\ Last(reported[a.id]) = <<1, 2>>

(***************************************************************************)
(* Properties of Physics, checked under PhysicsSpec.                       *)
(***************************************************************************)

\* C4: every body in the tracked collection has mass > 0 (addObject with
\* mass <= 0 is rejected and adds nothing).
C4_MassPositive == \A k \in 1..Len(bodies) : bodies[k].mass > 0

\* velocity + (gravity / mass) * dt, component-wise
EulerVelocity(b, g, dt) ==
    [c \in 1..3 |-> Add(b.velocity[c], Mul(Div(g[c], R(b.mass)), dt))]

\* position + velocity * dt, component-wise
EulerPosition(pos, vel, dt) == [c \in 1..3 |-> Add(pos[c], Mul(vel[c], dt))]

\* the position moved once for every entry of the handle h, in array order
RECURSIVE MovedBy(_, _, _, _, _)
MovedBy(pos, list, h, dt, k) ==
    IF k > Len(list) THEN pos
    ELSE MovedBy(IF list[k].object = h
                 THEN EulerPosition(pos, list[k].velocity, dt) ELSE pos,
                 list, h, dt, k + 1)

IsUpdateStep == updateCount' = updateCount + 1

C11_RemovedStaysPut ==
    /\ [](\A h \in Handles :
             untracked[h] # NotRemoved =>
                 /\ Find(bodies, h) = 0
                 /\ transform[h]["position"] = untracked[h])
    /\ [][bodyCount' # bodyCount =>
             /\ Len(bodies') = Len(bodies) + 1
             /\ SubSeq(bodies', 1, Len(bodies)) = bodies
             /\ Last(bodies').object = lastCall'.object
             /\ Last(bodies').velocity = lastCall'.vector]_vars

\* C11 witness: cube was added twice and removed, and an update with the
\* default gravity ran after the removal.
C11_Witness ==
    /\ bodyCount = 2
    /\ bodies = <<>>
    /\ untracked["cube"] # NotRemoved
    /\ untracked["ball"] = NotRemoved
    /\ lastCall.op = "update"
    /\ gravity # ZeroVec

IsApplyForceStep == forceCount' = forceCount + 1

\* C12: applyForce(handle, force) on a tracked body of mass m adds exactly
\* force / m to that body's velocity and changes nothing else: no position,
\* not the gravity vector, no other body's velocity.
C12_ApplyForceAddsForceOverMass ==
    [][IsApplyForceStep /\ Find(bodies, lastCall'.object) # 0 =>
        /\ lastCall'.op = "applyForce"
        /\ bodies' =
              [bodies EXCEPT ![Find(bodies, lastCall'.object)].velocity =
                  [c \in 1..3 |->
                      Add(@[c], Div(lastCall'.vector[c],
                                    R(bodies[Find(bodies, lastCall'.object)].mass)))]]
        /\ transform' = transform
        /\ gravity' = gravity]_vars

\* C12 witness: force (0,10,0) on the body of mass 2 added with velocity
\* (1,0,0) has raised velocity.y by 5.
C12_Witness ==
    /\ lastCall = Call("applyForce", "cube", <<R(0), R(10), R(0)>>)
    /\ updateCount = 0
    /\ Len(bodies) = 1
    /\ bodies[1].object = "cube"
    /\ bodies[1].mass = 2
    /\ bodies[1].velocity = <<R(1), R(5), R(0)>>

(***************************************************************************)
(* Properties of the operations that name a target, checked under          *)
(* TargetSpec.                                                             *)
(***************************************************************************)
\* an applyForce or setVelocity step on an object that has no entry
IsUntrackedCall ==
    /\ lastCall' # lastCall
    /\ lastCall'.op \in {"applyForce", "setVelocity"}
    /\ Find(bodies, lastCall'.object) = 0

\* C13: an operation naming an unknown target is a no-op that raises no
\* error: animateObject with an id absent from the registry returns the
\* Engine as it was, animations list included; applyForce and setVelocity
\* with an untracked handle leave every velocity and position unchanged.
C13_UnknownTargetNoOp ==
    /\ [](\A id \in Handles \ objects, t \in Targets, c \in Configs :
             AnimateObject(EngineState, id, t.property, t.endValue, c, clock)
                 = EngineState)
    /\ [][IsUntrackedCall => (bodies' = bodies /\ transform' = transform)]_vars

\* C13 witness: a task is registered and ball is not in the registry; the
\* last Physics call was applyForce on an object without an entry while
\* another object has one.
C13_Witness ==
    /\ animations # <<>>
    /\ "ball" \notin objects
    /\ bodies # <<>>
    /\ lastCall.op = "applyForce"
    /\ Find(bodies, lastCall.object) = 0

(***************************************************************************)
(* Further properties of Engine.                                           *)
(***************************************************************************)
\* C14: start() called while the engine is running changes no state:
\* isRunning, lastFrameTime and the pending request stay as they are and no
\* pass or request is made (the Engine after the call is the Engine before).
C14_StartWhileRunning ==
    isRunning => Start(EngineState, clock) = EngineState

\* C14 witness: the engine is running with a frame request pending and tasks
\* in the list, at a clock reading later than lastFrameTime.
C14_Witness ==
    /\ isRunning
    /\ pending # {}
    /\ animations # <<>>
    /\ clock > lastFrameTime

\* the index of the task with the given id in the list
IndexOf(list, id) == CHOOSE k \in 1..Len(list) : list[k].id = id

\* the last animate call removed a task from the list
RemovedInLastPass == \E r \in retired : r.pass = passCount

\* C15: within one pass, completed tasks are removed only after every task
\* present at the start of the pass has been visited exactly once, and the
\* tasks that remain keep their relative order.
C15_RemovalAfterVisits ==
    /\ RemovedInLastPass =>
          /\ Len(passLog) = Len(passBefore)
          /\ \A k \in 1..Len(passBefore) : passLog[k].id = passBefore[k].id
    /\ \A i, j \in 1..Len(passAfter) :
          (/\ i < j
           /\ HasTask(passBefore, passAfter[i].id)
           /\ HasTask(passBefore, passAfter[j].id)) =>
              IndexOf(passBefore, passAfter[i].id) < IndexOf(passBefore, passAfter[j].id)

\* a step that runs a pass in which a callback registers a task
IsSpawningPass == passCount' = passCount + 1 /\ animCount' > animCount

\* C16: a callback that calls animateObject during a pass does not corrupt
\* the pass: every task present before is visited exactly once, exactly the
\* tasks that completed are removed, and the new task is in the list after
\* the pass without having been advanced in it.
C16_ReentrantRegistration ==
    [][IsSpawningPass =>
        /\ Len(passLog') = Len(animations)
        /\ \A k \in 1..Len(animations) :
              /\ passLog'[k].id = animations[k].id
              /\ HasTask(animations', animations[k].id) <=>
                    ~Ge(Progress(animations[k], clock), R(1))
        /\ \A id \in (animCount + 1)..animCount' :
              /\ HasTask(animations', id)
              /\ \A k \in 1..Len(passLog') : passLog'[k].id # id]_vars

\* C17: a task leaves the list only in a pass in which its progress reached
\* 1 and its completion callback, if it has one, fired; no removed task is
\* written again.
C17_RetiredOnlyWhenComplete ==
    /\ \A r \in retired : Ge(r.progress, R(1)) /\ r.called
    /\ rewritten = {}

\* C20: at most one frame request is pending, and one is pending only while
\* the engine is running, also when callbacks stop and start the engine
\* from inside a pass.
C20_OnePendingWhileRunning ==
    /\ Cardinality(pending) <= 1
    /\ pending # {} => isRunning

\* C20 witness: a callback has stopped and started the engine inside a
\* pass, and the engine is running with its request pending.
C20_Witness ==
    /\ fired # {}
    /\ isRunning
    /\ Cardinality(pending) = 1
    /\ animationFrameId \in pending

\* the entries of a task list or of a pass log that are on target[property]
OnField(list, h, p) ==
    LET Test(e) == e.target = h /\ e.property = p
    IN  SelectSeq(list, Test)

\* C19: registering a task removes none of the earlier ones; in a pass over
\* several tasks on the same object and property every one of them writes
\* the field, in registration order, and the field is left with the value
\* of the latest-registered of them.
C19_SameFieldLastWins ==
    [][/\ animCount' = animCount + 1 =>
             SubSeq(animations', 1, Len(animations)) = animations
       /\ passCount' = passCount + 1 =>
             \A h \in Handles, p \in DOMAIN DefaultTransform :
                 LET tasks  == OnField(animations, h, p)
                     writes == OnField(passLog', h, p)
                 IN  Len(tasks) > 1 =>
                        /\ Len(writes) = Len(tasks)
                        /\ \A k \in 1..Len(tasks) : writes[k].id = tasks[k].id
                        /\ transform'[h][p] = CurrentValue(EngineState, Last(tasks), clock)]_vars


\* C18: the values a task writes, its final value included, are computed from
\* the endValue as it was when animateObject was called, whatever the caller
\* does to that vector afterwards.
C18_EndValueFixed ==
    \A i \in 1..Len(passLog) :
        LET a == TaskOf(passBefore, passLog[i].id)
        IN  passLog[i].value =
                Lerp(a.startValue, endAtRegistration[a.id],
                     Ease(a.easing, Progress(a, passNow)))

(***************************************************************************)
(* Uniqueness of the tracked entries, checked under PhysicsSpec.           *)
(***************************************************************************)
\* the indices of the entries of the handle h in the tracked collection
EntriesOf(list, h) == {k \in 1..Len(list) : list[k].object = h}

\* C21: each handle has at most one entry in the tracked collection, so one
\* update applies gravity to and moves each tracked object exactly once, and
\* setVelocity and applyForce act on the only entry of their handle.
C21_OneEntryPerHandle ==
    /\ [](\A h \in Handles : Cardinality(EntriesOf(bodies, h)) <= 1)
    /\ [][IsUpdateStep =>
             \A k \in 1..Len(bodies) :
                 transform'[bodies[k].object]["position"] =
                     EulerPosition(transform[bodies[k].object]["position"],
                                   EulerVelocity(bodies[k], gravity,
                                                 Div(R(lastDeltaTime'), R(1000))),
                                   Div(R(lastDeltaTime'), R(1000)))]_vars
    /\ [][(lastCall' # lastCall /\ lastCall'.op = "setVelocity") =>
             \A k \in EntriesOf(bodies, lastCall'.object) :
                 bodies'[k].velocity = lastCall'.vector]_vars

=============================================================================
